---- MODULE Spec2Model ----
(***************************************************************************)
(* dbmcp: the connection registry (an LRUCache of session id -> database   *)
(* manager), the four tool handlers that use it, and the two database      *)
(* managers' connect / execute / introspect / disconnect.                  *)
(*                                                                         *)
(* JavaScript runs one handler at a time until it reaches an await; every  *)
(* action below is one such run-to-await segment, so the interleavings of  *)
(* the actions are the interleavings of the handlers.                      *)
(***************************************************************************)
EXTENDS Integers, Sequences, FiniteSets, TLC

\* ---------------------------------------------------------------- bounds
\* The cache capacity and the time-to-live are scaled down: the code sets
\* max: 100 and ttl: 300000 ms (part_000:133-134); every formula below is
\* stated in terms of max and ttl, and is checked again with both raised.
max == 2
ttl == 1

\* The clock runs one tick past the time-to-live, and one more manager is
\* connected than the cache holds.
MaxTime == ttl + 1
MaxAdapters == max + 1

Handlers == {1, 2}
UUIDs == 1 .. MaxAdapters
AdapterIds == 1 .. MaxAdapters
\* JavaScript's undefined / null, as a session id, a manager or a cache result.
undefined == 0

EngineTags == {"mysql", "postgres", "oracle"}

VARIABLES
    now,        \* the clock LRUCache reads (performance.now), in ticks
    connCache,  \* the LRUCache: a sequence of entries, least recently used first
    adapters,   \* the database managers constructed so far: type and conn
    nAdapters,  \* how many managers have been constructed
    nIds,       \* how many session ids uuidv4 has handed out
    handlers,   \* the tool handler invocations in progress
    disc,       \* the disconnect() started by the dispose hook, per manager
    disposed,   \* how many times the dispose hook ran for each manager
    stderr,     \* what the last step wrote to console.error
    dbType,     \* the engine the clients' configs name in this run
    concurrency, \* how many invocations the request layer lets run at once
    touched,    \* history: live session ids in order of last put / get hit
    factoryConfig,  \* the config object handed to createManagerFromConfig
    factoryResult,  \* what createManagerFromConfig did with it
    driverOptions,  \* the connection options connect() handed to the driver
    constructed,    \* what a manager class's constructor, called directly, did
    engineResult,   \* the result set the database engine sends for a query
    nativeResult,   \* what the driver's query call resolves with for it
    queryResult,    \* the SqlQueryResult execute() returns for it
    explainQuery,   \* the query argument of the explain_query call under way
    executeCalls,   \* the arguments of the dbManager.execute calls it has made
    planResult,     \* what dbManager.execute resolved with
    explainReply,   \* the structuredContent explain_query returned
    catalog,        \* the tables and views the database holds
    introspection,  \* the introspect() call under way: its stage and queries
    layout          \* the DatabaseLayout introspect() returned

\* The server's state, and the state of the single calls studied on their own.
serverVars == <<now, connCache, adapters, nAdapters, nIds, handlers, disc, disposed, stderr, dbType, concurrency, touched>>
factoryVars == <<factoryConfig, factoryResult, driverOptions, constructed>>
executeVars == <<engineResult, nativeResult, queryResult>>
explainVars == <<explainQuery, executeCalls, planResult, explainReply>>
introspectVars == <<catalog, introspection, layout>>
callVars == <<factoryVars, executeVars, explainVars, introspectVars>>
exceptFactory == <<serverVars, executeVars, explainVars, introspectVars>>
exceptExecute == <<serverVars, factoryVars, explainVars, introspectVars>>
exceptIntrospect == <<serverVars, factoryVars, executeVars, explainVars>>

vars == <<now, connCache, adapters, nAdapters, nIds, handlers, disc, disposed, stderr, dbType, concurrency, touched,
          factoryConfig, factoryResult, driverOptions, constructed,
          engineResult, nativeResult, queryResult,
          explainQuery, executeCalls, planResult, explainReply,
          catalog, introspection, layout>>

\* ------------------------------------------------------------ sequences
Remove(s, i) == SubSeq(s, 1, i - 1) \o SubSeq(s, i + 1, Len(s))

Without(s, k) == SelectSeq(s, LAMBDA x : x # k)

\* ------------------------------------------------- schemas.ts: the config
Configs == [type : EngineTags, port : {0, 3306}]

\* The configs the clients of one run send: its engine, or an unknown one.
ClientConfigs == {c \in Configs : c.type \in {dbType, "oracle"}}

\* ConnectionConfigSchema.parse: the type is one of the two literals and the
\* port is a positive integer.
ConnectionConfigSchemaOk(config) ==
    /\ config.type \in {"postgres", "mysql"}
    /\ config.port > 0

\* ------------------------------------------------------------ the LRUCache
KeysOf(c) == {c[i].key : i \in DOMAIN c}

IndexOf(c, k) == CHOOSE i \in DOMAIN c : c[i].key = k

\* An entry is stale when the clock has moved more than ttl past its start.
isStale(e, t) == t - e.start > ttl

\* set that never evicts: the entry is appended whatever the size.
cacheSetNoEvict(c, k, v, t) ==
    [cache |-> c \o <<[key |-> k, value |-> v, start |-> t]>>, dispose |-> {}]

\* set that evicts without handing the evicted value to the dispose hook.
cacheSetSilentEvict(c, k, v, t) ==
    [cache |-> (IF Len(c) = max THEN Tail(c) ELSE c)
                  \o <<[key |-> k, value |-> v, start |-> t]>>,
     dispose |-> {}]

\* connCache.set(k, v): an existing key is overwritten (its old value is
\* disposed), a new key at capacity evicts the least recently used entry;
\* the entry becomes the most recently used one and its ttl starts now.
cacheSet(c, k, v, t) ==
    LET e == [key |-> k, value |-> v, start |-> t] IN
    IF k \in KeysOf(c)
    THEN LET i == IndexOf(c, k) IN
         [cache |-> Remove(c, i) \o <<e>>,
          dispose |-> IF c[i].value # v THEN {c[i].value} ELSE {}]
    ELSE IF Len(c) = max
    THEN [cache |-> Tail(c) \o <<e>>, dispose |-> {c[1].value}]
    ELSE [cache |-> c \o <<e>>, dispose |-> {}]

\* get whose hit leaves the entry where it is in the recency order.
cacheGetNoRefresh(c, k, t) ==
    IF k \notin KeysOf(c)
    THEN [cache |-> c, value |-> undefined, dispose |-> {}]
    ELSE LET i == IndexOf(c, k) IN
         IF isStale(c[i], t)
         THEN [cache |-> Remove(c, i), value |-> undefined, dispose |-> {c[i].value}]
         ELSE [cache |-> c, value |-> c[i].value, dispose |-> {}]

\* get with updateAgeOnGet: a hit restarts the entry's ttl.
cacheGetUpdateAge(c, k, t) ==
    IF k \notin KeysOf(c)
    THEN [cache |-> c, value |-> undefined, dispose |-> {}]
    ELSE LET i == IndexOf(c, k) IN
         IF isStale(c[i], t)
         THEN [cache |-> Remove(c, i), value |-> undefined, dispose |-> {c[i].value}]
         ELSE [cache |-> Remove(c, i) \o <<[c[i] EXCEPT !.start = t]>>,
               value |-> c[i].value, dispose |-> {}]

\* get with allowStale: a stale entry is deleted and its value still returned.
cacheGetAllowStale(c, k, t) ==
    IF k \notin KeysOf(c)
    THEN [cache |-> c, value |-> undefined, dispose |-> {}]
    ELSE LET i == IndexOf(c, k) IN
         IF isStale(c[i], t)
         THEN [cache |-> Remove(c, i), value |-> c[i].value, dispose |-> {c[i].value}]
         ELSE [cache |-> Remove(c, i) \o <<c[i]>>, value |-> c[i].value, dispose |-> {}]

\* connCache.get(k): a miss returns undefined; a stale entry is deleted
\* (and disposed) and undefined is returned; a hit makes the entry the most
\* recently used one and leaves its start alone.
cacheGet(c, k, t) ==
    IF k \notin KeysOf(c)
    THEN [cache |-> c, value |-> undefined, dispose |-> {}]
    ELSE LET i == IndexOf(c, k) IN
         IF isStale(c[i], t)
         THEN [cache |-> Remove(c, i), value |-> undefined, dispose |-> {c[i].value}]
         ELSE [cache |-> Remove(c, i) \o <<c[i]>>, value |-> c[i].value, dispose |-> {}]

\* ------------------------------------------------- the database managers
NoAdapter == [type |-> "none", conn |-> "null"]

\* createManagerFromConfig: parse the config, then construct the manager the
\* type names; both constructors check the type and leave conn null.
createManagerFromConfig(config) ==
    IF ~ConnectionConfigSchemaOk(config)
    THEN [error |-> "ZodError", manager |-> NoAdapter]
    ELSE IF config.type = "mysql"
    THEN [error |-> "", manager |-> [type |-> "mysql", conn |-> "null"]]
    ELSE IF config.type = "postgres"
    THEN [error |-> "", manager |-> [type |-> "postgres", conn |-> "null"]]
    ELSE [error |-> "Unsupported database type", manager |-> NoAdapter]

\* ------------------------------------------------------ the dispose hook
\* dispose: (value) => value.disconnect().catch(...). disconnect() returns at
\* once when conn is null and otherwise calls conn.end() and awaits it; the
\* hook itself returns without awaiting.
discAfterDispose(D) ==
    [a \in AdapterIds |->
        IF a \in D /\ adapters[a].conn # "null" THEN "ending" ELSE disc[a]]

disposedAfter(D) ==
    [a \in AdapterIds |-> IF a \in D THEN disposed[a] + 1 ELSE disposed[a]]

\* A catch block that drops the close error.
logNothing(a, ok) == <<>>

\* The catch block of disconnect() writes the close error to console.error.
logAfterEnd(a, ok) == IF ok THEN <<>> ELSE <<"Error disconnecting", a>>

\* The order of last use of the live ids, kept apart from the cache's own
\* order: id k was just put or hit, live is the set of ids still registered.
touch(k, live) ==
    SelectSeq(IF k = undefined THEN touched ELSE Without(touched, k) \o <<k>>,
              LAMBDA x : x \in live)

\* ---------------------------------------------------------- the handlers
\* driverCalls counts the calls an invocation has issued to the database
\* driver through its manager's connect, execute or introspect.
IdleHandler ==
    [op |-> "none", pc |-> "idle", connectionId |-> undefined,
     dbManager |-> undefined, error |-> "", driverCalls |-> 0]

\* A slot takes a new invocation once its last one has returned.
Free(h) == handlers[h].pc \in {"idle", "done"}

\* The slots are interchangeable: a new invocation takes the first free one.
Takes(h) == h <= concurrency /\ Free(h) /\ \A g \in Handlers : g < h => ~Free(g)

\* A returned handler's response has left for the client before anything
\* else runs.
Delivered ==
    [h \in Handlers |-> IF handlers[h].pc = "done" THEN IdleHandler ELSE handlers[h]]

Failed(op, id, msg) ==
    [IdleHandler EXCEPT !.op = op, !.pc = "done", !.connectionId = id, !.error = msg]

\* An id generator that repeats itself: the id it handed out last, again.
uuidRepeated == IF nIds = 0 THEN nIds + 1 ELSE nIds

\* uuidv4(): an id that was not handed out before.
uuidv4 == nIds + 1

Start ==
    /\ now = 0
    /\ connCache = <<>>
    /\ adapters = [a \in AdapterIds |-> NoAdapter]
    /\ nAdapters = 0
    /\ nIds = 0
    /\ handlers = [h \in Handlers |-> IdleHandler]
    /\ disc = [a \in AdapterIds |-> "none"]
    /\ disposed = [a \in AdapterIds |-> 0]
    /\ stderr = <<>>
    /\ dbType \in {"mysql", "postgres"}
    /\ touched = <<>>

\* No call is being studied on its own.
NoFactoryCall ==
    factoryConfig = <<>> /\ factoryResult = <<>> /\ driverOptions = <<>> /\ constructed = <<>>

NoExecuteCall == engineResult = <<>> /\ nativeResult = <<>> /\ queryResult = <<>>

NoExplainCall ==
    explainQuery = <<>> /\ executeCalls = <<>> /\ planResult = <<>> /\ explainReply = <<>>

NoIntrospectCall == catalog = {} /\ introspection = <<>> /\ layout = <<>>

NoCalls == NoFactoryCall /\ NoExecuteCall /\ NoExplainCall /\ NoIntrospectCall

\* The server as it runs: handlers interleave at their awaits. The clients of
\* these runs use MySQL; the two manager classes differ in nothing that the
\* registry or a handler sees (conn, connect, execute, disconnect).
Init == Start /\ NoCalls /\ concurrency = Cardinality(Handlers) /\ dbType = "mysql"

\* The server with a client that awaits each response before its next call.
InitSequential == Start /\ NoCalls /\ concurrency = 1

\* connect: createManagerFromConfig(config), then dbManager.connect() up to
\* the await of the driver's connection attempt.
ConnectStart(h, config) ==
    /\ Takes(h)
    /\ LET made == createManagerFromConfig(config) IN
       IF made.error # ""
       THEN /\ handlers' = [Delivered EXCEPT ![h] = Failed("connect", undefined, made.error)]
            /\ UNCHANGED <<adapters, nAdapters>>
       ELSE /\ nAdapters < MaxAdapters
            /\ nAdapters' = nAdapters + 1
            /\ adapters' = [adapters EXCEPT ![nAdapters + 1] = made.manager]
            /\ handlers' = [Delivered EXCEPT ![h] =
                   [IdleHandler EXCEPT !.op = "connect", !.pc = "connect",
                                       !.dbManager = nAdapters + 1,
                                       !.driverCalls = 1]]
    /\ stderr' = <<>>
    /\ UNCHANGED <<now, connCache, nIds, disc, disposed, dbType, concurrency, touched>>
    /\ UNCHANGED callVars

\* The driver's connection attempt succeeds: connect() stores the handle and
\* the handler goes on: connectionId = uuidv4(); connCache.set(connectionId,
\* dbManager); return.
ConnectResolved(h) ==
    /\ handlers[h].pc = "connect"
    /\ adapters' = [adapters EXCEPT ![handlers[h].dbManager].conn = "open"]
    /\ nIds' = nIds + 1
    /\ LET r == cacheSet(connCache, uuidv4, handlers[h].dbManager, now) IN
       /\ connCache' = r.cache
       /\ disc' = discAfterDispose(r.dispose)
       /\ disposed' = disposedAfter(r.dispose)
       /\ touched' = touch(uuidv4, KeysOf(r.cache))
    /\ handlers' = [Delivered EXCEPT ![h].pc = "done", ![h].connectionId = uuidv4]
    /\ stderr' = <<>>
    /\ UNCHANGED <<now, nAdapters, dbType, concurrency>>
    /\ UNCHANGED callVars

\* A connect handler that registers the manager although the attempt failed.
ConnectRejectedRegistered(h) ==
    /\ handlers[h].pc = "connect"
    /\ handlers' = [Delivered EXCEPT ![h].pc = "done", ![h].error = "ConnectError"]
    /\ nIds' = nIds + 1
    /\ connCache' = cacheSet(connCache, uuidv4, handlers[h].dbManager, now).cache
    /\ touched' = touch(uuidv4, KeysOf(connCache'))
    /\ stderr' = <<>>
    /\ UNCHANGED <<now, adapters, nAdapters, disc, disposed, dbType, concurrency>>
    /\ UNCHANGED callVars

\* The driver's connection attempt fails: connect() throws, conn stays null
\* and the handler ends with the driver's error.
ConnectRejected(h) ==
    /\ handlers[h].pc = "connect"
    /\ handlers' = [Delivered EXCEPT ![h].pc = "done", ![h].error = "ConnectError"]
    /\ stderr' = <<>>
    /\ UNCHANGED <<now, connCache, adapters, nAdapters, nIds, disc, disposed, dbType, concurrency, touched>>
    /\ UNCHANGED callVars

\* A manager whose execute and introspect do not look at conn.
notChecked(a) == FALSE

\* if (!this.conn) throw new Error("Not connected"), in execute and introspect.
notConnected(a) == adapters[a].conn = "null"

\* dbManager.execute / dbManager.introspect called by op for session id: the
\* guard throws, or the driver call is issued and awaited at pc.
managerCall(op, id, a, pc) ==
    IF notConnected(a)
    THEN [Failed(op, id, "Not connected") EXCEPT !.dbManager = a]
    ELSE [IdleHandler EXCEPT !.op = op, !.pc = pc, !.connectionId = id, !.dbManager = a,
                             !.driverCalls = 1]

\* A get whose removal of a stale entry and whose dispose hook are apart:
\* the entry goes in this step, the hook has not run when the step ends.
LookupHookDeferred(id) ==
    LET r == cacheGet(connCache, id, now) IN
    /\ connCache' = r.cache
    /\ disc' = disc
    /\ disposed' = disposed
    /\ touched' = touch(IF r.value = undefined THEN undefined ELSE id, KeysOf(r.cache))

\* const dbManager = connCache.get(connectionId), with the hook's effects.
Lookup(id) ==
    LET r == cacheGet(connCache, id, now) IN
    /\ connCache' = r.cache
    /\ disc' = discAfterDispose(r.dispose)
    /\ disposed' = disposedAfter(r.dispose)
    /\ touched' = touch(IF r.value = undefined THEN undefined ELSE id, KeysOf(r.cache))

Found(id) == cacheGet(connCache, id, now).value

\* The handler after its lookup: no manager, or the manager's call.
AfterLookup(op, id, pc) ==
    IF Found(id) = undefined
    THEN Failed(op, id, "No connection found")
    ELSE managerCall(op, id, Found(id), pc)

\* inspect_database: the lookup, then dbManager.introspect() up to its first
\* await; the handler stays suspended until introspect settles.
InspectStart(h, id) ==
    /\ Takes(h)
    /\ Lookup(id)
    /\ handlers' = [Delivered EXCEPT ![h] = AfterLookup("inspect_database", id, "introspect")]
    /\ stderr' = <<>>
    /\ UNCHANGED <<now, adapters, nAdapters, nIds, dbType, concurrency>>
    /\ UNCHANGED callVars

\* execute_query: the lookup, then dbManager.execute(query) up to the await
\* of the driver's query.
ExecuteStart(h, id) ==
    /\ Takes(h)
    /\ Lookup(id)
    /\ handlers' = [Delivered EXCEPT ![h] = AfterLookup("execute_query", id, "execute")]
    /\ stderr' = <<>>
    /\ UNCHANGED <<now, adapters, nAdapters, nIds, dbType, concurrency>>
    /\ UNCHANGED callVars

\* explain_query: the lookup, the EXPLAIN text, then dbManager.execute.
ExplainStart(h, id) ==
    /\ Takes(h)
    /\ Lookup(id)
    /\ handlers' = [Delivered EXCEPT ![h] = AfterLookup("explain_query", id, "execute")]
    /\ stderr' = <<>>
    /\ UNCHANGED <<now, adapters, nAdapters, nIds, dbType, concurrency>>
    /\ UNCHANGED callVars

\* The driver answers the query of execute: the handler returns the result.
QueryResolved(h) ==
    /\ handlers[h].pc = "execute"
    /\ handlers' = [Delivered EXCEPT ![h].pc = "done"]
    /\ stderr' = <<>>
    /\ UNCHANGED <<now, connCache, adapters, nAdapters, nIds, disc, disposed, dbType, concurrency, touched>>
    /\ UNCHANGED callVars

\* An execute that sends a rejected query again.
QueryRejectedRetried(h) ==
    /\ handlers[h].pc = "execute"
    /\ handlers' = [Delivered EXCEPT ![h].driverCalls = @ + 1]
    /\ stderr' = <<>>
    /\ UNCHANGED <<now, connCache, adapters, nAdapters, nIds, disc, disposed, dbType, concurrency, touched>>
    /\ UNCHANGED callVars

\* An execute_query handler that drops the session when its query fails.
QueryRejectedDropsSession(h) ==
    /\ handlers[h].pc = "execute"
    /\ handlers' = [Delivered EXCEPT ![h].pc = "done", ![h].error = "QueryError"]
    /\ connCache' = SelectSeq(connCache, LAMBDA e : e.key # handlers[h].connectionId)
    /\ touched' = touch(undefined, KeysOf(connCache'))
    /\ stderr' = <<>>
    /\ UNCHANGED <<now, adapters, nAdapters, nIds, disc, disposed, dbType, concurrency>>
    /\ UNCHANGED callVars

\* The driver rejects the query of execute: the error reaches the caller.
QueryRejected(h) ==
    /\ handlers[h].pc = "execute"
    /\ handlers' = [Delivered EXCEPT ![h].pc = "done", ![h].error = "QueryError"]
    /\ stderr' = <<>>
    /\ UNCHANGED <<now, connCache, adapters, nAdapters, nIds, disc, disposed, dbType, concurrency, touched>>
    /\ UNCHANGED callVars

\* Every query of introspect was answered: the handler returns the layout.
IntrospectResolved(h) ==
    /\ handlers[h].pc = "introspect"
    /\ handlers' = [Delivered EXCEPT ![h].pc = "done"]
    /\ stderr' = <<>>
    /\ UNCHANGED <<now, connCache, adapters, nAdapters, nIds, disc, disposed, dbType, concurrency, touched>>
    /\ UNCHANGED callVars

\* A query of introspect was rejected: introspect throws to the handler.
IntrospectRejected(h) ==
    /\ handlers[h].pc = "introspect"
    /\ handlers' = [Delivered EXCEPT ![h].pc = "done", ![h].error = "QueryError"]
    /\ stderr' = <<>>
    /\ UNCHANGED <<now, connCache, adapters, nAdapters, nIds, disc, disposed, dbType, concurrency, touched>>
    /\ UNCHANGED callVars

\* The conn.end() of a disposal settles: a failure is logged by disconnect's
\* catch block, and conn is cleared either way.
DisconnectSettled(a, ok) ==
    /\ disc[a] = "ending"
    /\ disc' = [disc EXCEPT ![a] = IF ok THEN "closed" ELSE "failed"]
    /\ adapters' = [adapters EXCEPT ![a].conn = "null"]
    /\ stderr' = logAfterEnd(a, ok)
    /\ handlers' = Delivered
    /\ UNCHANGED <<now, connCache, nAdapters, nIds, disposed, dbType, concurrency, touched>>
    /\ UNCHANGED callVars

\* Time passes.
Tick ==
    /\ now < MaxTime
    /\ now' = now + 1
    /\ handlers' = Delivered
    /\ stderr' = <<>>
    /\ UNCHANGED <<connCache, adapters, nAdapters, nIds, disc, disposed, dbType, concurrency, touched>>
    /\ UNCHANGED callVars

Next ==
    \/ \E h \in Handlers, config \in ClientConfigs : ConnectStart(h, config)
    \/ \E h \in Handlers : ConnectResolved(h)
    \/ \E h \in Handlers : ConnectRejected(h)
    \/ \E h \in Handlers, id \in UUIDs : InspectStart(h, id)
    \/ \E h \in Handlers, id \in UUIDs : ExecuteStart(h, id)
    \/ \E h \in Handlers, id \in UUIDs : ExplainStart(h, id)
    \/ \E h \in Handlers : QueryResolved(h)
    \/ \E h \in Handlers : QueryRejected(h)
    \/ \E h \in Handlers : IntrospectResolved(h)
    \/ \E h \in Handlers : IntrospectRejected(h)
    \/ \E a \in AdapterIds, ok \in BOOLEAN : DisconnectSettled(a, ok)
    \/ Tick

Spec == Init /\ [][Next]_vars

SpecSequential == InitSequential /\ [][Next]_vars

\* ------------------------------------------- the managers used directly
\* A caller that holds a manager itself, as sandbox.ts does: it constructs
\* one with createManagerFromConfig and calls its methods, one at a time.
Constructed == {a \in AdapterIds : adapters[a].type # "none"}

ManagerCreate(h, config) ==
    /\ Takes(h)
    /\ LET made == createManagerFromConfig(config) IN
       IF made.error # ""
       THEN /\ handlers' = [Delivered EXCEPT
                               ![h] = Failed("createManagerFromConfig", undefined, made.error)]
            /\ UNCHANGED <<adapters, nAdapters>>
       ELSE /\ nAdapters < MaxAdapters
            /\ nAdapters' = nAdapters + 1
            /\ adapters' = [adapters EXCEPT ![nAdapters + 1] = made.manager]
            /\ handlers' = [Delivered EXCEPT ![h] =
                   [IdleHandler EXCEPT !.op = "createManagerFromConfig", !.pc = "done",
                                       !.dbManager = nAdapters + 1]]
    /\ stderr' = <<>>
    /\ UNCHANGED <<now, connCache, nIds, disc, disposed, dbType, concurrency, touched>>
    /\ UNCHANGED callVars

\* await conn.connect(), up to the await of the driver's attempt.
ManagerConnect(h, a) ==
    /\ Takes(h)
    /\ a \in Constructed
    /\ handlers' = [Delivered EXCEPT ![h] =
           [IdleHandler EXCEPT !.op = "manager.connect", !.pc = "manager_connect",
                               !.dbManager = a, !.driverCalls = 1]]
    /\ stderr' = <<>>
    /\ UNCHANGED <<now, connCache, adapters, nAdapters, nIds, disc, disposed, dbType,
                   concurrency, touched>>
    /\ UNCHANGED callVars

\* The attempt settles: the handle is stored, or connect() throws.
ManagerConnectSettled(h, ok) ==
    /\ handlers[h].pc = "manager_connect"
    /\ adapters' = [adapters EXCEPT
           ![handlers[h].dbManager].conn = IF ok THEN "open" ELSE @]
    /\ handlers' = [Delivered EXCEPT
           ![h].pc = "done", ![h].error = IF ok THEN "" ELSE "ConnectError"]
    /\ stderr' = <<>>
    /\ UNCHANGED <<now, connCache, nAdapters, nIds, disc, disposed, dbType, concurrency,
                   touched>>
    /\ UNCHANGED callVars

\* await conn.execute(query), up to the guard or the driver's query.
ManagerExecute(h, a) ==
    /\ Takes(h)
    /\ a \in Constructed
    /\ handlers' = [Delivered EXCEPT
           ![h] = managerCall("manager.execute", undefined, a, "execute")]
    /\ stderr' = <<>>
    /\ UNCHANGED <<now, connCache, adapters, nAdapters, nIds, disc, disposed, dbType,
                   concurrency, touched>>
    /\ UNCHANGED callVars

\* await conn.introspect(), up to the guard or its first query.
ManagerIntrospect(h, a) ==
    /\ Takes(h)
    /\ a \in Constructed
    /\ handlers' = [Delivered EXCEPT
           ![h] = managerCall("manager.introspect", undefined, a, "introspect")]
    /\ stderr' = <<>>
    /\ UNCHANGED <<now, connCache, adapters, nAdapters, nIds, disc, disposed, dbType,
                   concurrency, touched>>
    /\ UNCHANGED callVars

\* A disconnect() without its first line: conn.end() is called whatever conn is.
ManagerDisconnectUnguarded(h, a) ==
    /\ Takes(h)
    /\ a \in Constructed
    /\ handlers' = [Delivered EXCEPT ![h] =
           [IdleHandler EXCEPT !.op = "manager.disconnect", !.pc = "end", !.dbManager = a]]
    /\ disc' = [disc EXCEPT ![a] = "ending"]
    /\ stderr' = <<>>
    /\ UNCHANGED <<now, connCache, adapters, nAdapters, nIds, disposed, dbType,
                   concurrency, touched>>
    /\ UNCHANGED callVars

\* await conn.disconnect(): nothing to do without a handle, else conn.end()
\* is called and awaited.
ManagerDisconnect(h, a) ==
    /\ Takes(h)
    /\ a \in Constructed
    /\ IF adapters[a].conn = "null"
       THEN /\ handlers' = [Delivered EXCEPT ![h] =
                   [IdleHandler EXCEPT !.op = "manager.disconnect", !.pc = "done",
                                       !.dbManager = a]]
            /\ UNCHANGED disc
       ELSE /\ handlers' = [Delivered EXCEPT ![h] =
                   [IdleHandler EXCEPT !.op = "manager.disconnect", !.pc = "end",
                                       !.dbManager = a]]
            /\ disc' = [disc EXCEPT ![a] = "ending"]
    /\ stderr' = <<>>
    /\ UNCHANGED <<now, connCache, adapters, nAdapters, nIds, disposed, dbType,
                   concurrency, touched>>
    /\ UNCHANGED callVars

\* A disconnect() without its try / catch: a failed conn.end() is thrown to
\* the caller and the assignment conn = null is not reached.
ManagerEndSettledRaises(h, ok) ==
    /\ handlers[h].pc = "end"
    /\ disc' = [disc EXCEPT ![handlers[h].dbManager] = IF ok THEN "closed" ELSE "failed"]
    /\ adapters' = [adapters EXCEPT ![handlers[h].dbManager].conn = IF ok THEN "null" ELSE @]
    /\ stderr' = <<>>
    /\ handlers' = [Delivered EXCEPT ![h].pc = "done", ![h].error = IF ok THEN "" ELSE "EndError"]
    /\ UNCHANGED <<now, connCache, nAdapters, nIds, disposed, dbType, concurrency, touched>>
    /\ UNCHANGED callVars

\* conn.end() settles: a failure is logged and swallowed, conn is cleared
\* and disconnect() returns.
ManagerEndSettled(h, ok) ==
    /\ handlers[h].pc = "end"
    /\ disc' = [disc EXCEPT ![handlers[h].dbManager] = IF ok THEN "closed" ELSE "failed"]
    /\ adapters' = [adapters EXCEPT ![handlers[h].dbManager].conn = "null"]
    /\ stderr' = logAfterEnd(handlers[h].dbManager, ok)
    /\ handlers' = [Delivered EXCEPT ![h].pc = "done"]
    /\ UNCHANGED <<now, connCache, nAdapters, nIds, disposed, dbType, concurrency, touched>>
    /\ UNCHANGED callVars

NextManager ==
    \/ \E h \in Handlers, config \in ClientConfigs : ManagerCreate(h, config)
    \/ \E h \in Handlers, a \in AdapterIds : ManagerConnect(h, a)
    \/ \E h \in Handlers, ok \in BOOLEAN : ManagerConnectSettled(h, ok)
    \/ \E h \in Handlers, a \in AdapterIds : ManagerExecute(h, a)
    \/ \E h \in Handlers, a \in AdapterIds : ManagerIntrospect(h, a)
    \/ \E h \in Handlers, a \in AdapterIds : ManagerDisconnect(h, a)
    \/ \E h \in Handlers, ok \in BOOLEAN : ManagerEndSettled(h, ok)
    \/ \E h \in Handlers : QueryResolved(h)
    \/ \E h \in Handlers : QueryRejected(h)
    \/ \E h \in Handlers : IntrospectResolved(h)
    \/ \E h \in Handlers : IntrospectRejected(h)

SpecManager == InitSequential /\ [][NextManager]_vars

\* ------------------------------------------------ the factory on its own
\* createManagerFromConfig and connect() with the whole config object: every
\* field of ConnectionConfigSchema, each of them possibly left out.
\* A property that may be missing: <<>> is undefined, <<v>> is the value v.
Opt(S) == {<<>>} \cup {<<v>> : v \in S}

\* The numbers sent as port: int + tenths / 10.
Ports ==
    {[int |-> 0, tenths |-> 0], [int |-> -1, tenths |-> 0],
     [int |-> 3307, tenths |-> 0], [int |-> 3307, tenths |-> 5]}

Texts == {"", "app"}

RawConfigs ==
    [type : Opt(EngineTags), host : Opt({"db.internal"}), port : Opt(Ports),
     database : Opt(Texts), username : Opt(Texts), password : Opt(Texts)]

\* A schema whose type is any string.
acceptsAnyType(raw) ==
    /\ raw.type # <<>>
    /\ raw.port # <<>> /\ raw.port[1].tenths = 0 /\ raw.port[1].int > 0
    /\ raw.database # <<>>
    /\ raw.username # <<>>
    /\ raw.password # <<>>

\* A schema whose port is any number.
acceptsAnyPort(raw) ==
    /\ raw.type \in {<<"postgres">>, <<"mysql">>}
    /\ raw.port # <<>>
    /\ raw.database # <<>>
    /\ raw.username # <<>>
    /\ raw.password # <<>>

\* ConnectionConfigSchema: type is one of two literals; host is a string
\* with a default; port is a number, an integer and positive; database,
\* username and password are strings, of any length.
accepts(raw) ==
    /\ raw.type \in {<<"postgres">>, <<"mysql">>}
    /\ raw.port # <<>> /\ raw.port[1].tenths = 0 /\ raw.port[1].int > 0
    /\ raw.database # <<>>
    /\ raw.username # <<>>
    /\ raw.password # <<>>

\* What ConnectionConfigSchema.parse returns for a config it accepts.
parse(raw) ==
    [type |-> raw.type[1],
     host |-> IF raw.host = <<>> THEN "localhost" ELSE raw.host[1],
     port |-> raw.port[1].int,
     database |-> raw.database[1],
     username |-> raw.username[1],
     password |-> raw.password[1]]

\* A manager object of a class, as its constructor leaves it: this.config
\* is the config, conn is null. type is the tag of its config.
newManager(class, config) ==
    [error |-> "",
     manager |-> [class |-> class, type |-> config.type, conn |-> "null",
                  config |-> config]]

\* A constructor that takes any config.
MysqlDatabaseManagerUnchecked(config) == newManager("MysqlDatabaseManager", config)

\* new MysqlDatabaseManager(config): throws unless config.type is "mysql".
MysqlDatabaseManager(config) ==
    IF config.type # "mysql"
    THEN [error |-> "Invalid database type", manager |-> NoAdapter]
    ELSE newManager("MysqlDatabaseManager", config)

\* new PostgresqlDatabaseManager(config): throws unless config.type is
\* "postgres".
PostgresqlDatabaseManager(config) ==
    IF config.type # "postgres"
    THEN [error |-> "Invalid database type", manager |-> NoAdapter]
    ELSE newManager("PostgresqlDatabaseManager", config)

\* createManagerFromConfig(config): parse throws a ZodError, or the manager of
\* the parsed type is constructed around the parsed config, conn null.
createManager(raw) ==
    IF ~accepts(raw)
    THEN [error |-> "ZodError", manager |-> NoAdapter]
    ELSE LET connOptions == parse(raw) IN
         IF connOptions.type = "mysql"
         THEN MysqlDatabaseManager(connOptions)
         ELSE IF connOptions.type = "postgres"
         THEN PostgresqlDatabaseManager(connOptions)
         ELSE [error |-> "Unsupported database type", manager |-> NoAdapter]

\* The port each connect() falls back to: this.config.port || 3306, || 5432.
defaultPort(type) == IF type = "mysql" THEN 3306 ELSE 5432

\* The options connect() hands to mysql.createConnection / new PgClient.
connectOptions(m) ==
    [host |-> m.config.host,
     port |-> IF m.config.port = 0 THEN defaultPort(m.type) ELSE m.config.port,
     database |-> m.config.database,
     user |-> m.config.username,
     password |-> m.config.password]

InitFactory ==
    /\ Start /\ dbType = "mysql" /\ concurrency = 1
    /\ factoryConfig \in RawConfigs
    /\ factoryResult = <<>>
    /\ driverOptions = <<>>
    /\ constructed = <<>>
    /\ NoExecuteCall
    /\ NoExplainCall
    /\ NoIntrospectCall

\* createManagerFromConfig(factoryConfig) returns or throws.
FactoryCreate ==
    /\ factoryResult = <<>>
    /\ factoryResult' = <<createManager(factoryConfig)>>
    /\ UNCHANGED <<factoryConfig, driverOptions, constructed>>
    /\ UNCHANGED exceptFactory

\* connect() of the manager made, up to the driver's connection attempt.
FactoryConnect ==
    /\ Len(factoryResult) = 1
    /\ factoryResult[1].error = ""
    /\ driverOptions = <<>>
    /\ driverOptions' = <<connectOptions(factoryResult[1].manager)>>
    /\ UNCHANGED <<factoryConfig, factoryResult, constructed>>
    /\ UNCHANGED exceptFactory

\* The two exported manager classes.
ManagerClasses == {"MysqlDatabaseManager", "PostgresqlDatabaseManager"}

\* new class(config) by a caller that holds a valid ConnectionConfig and
\* names the class itself.
FactoryConstruct(class) ==
    /\ constructed = <<>>
    /\ accepts(factoryConfig)
    /\ constructed' =
          <<[class |-> class,
             result |-> IF class = "MysqlDatabaseManager"
                        THEN MysqlDatabaseManager(parse(factoryConfig))
                        ELSE PostgresqlDatabaseManager(parse(factoryConfig))]>>
    /\ UNCHANGED <<factoryConfig, factoryResult, driverOptions>>
    /\ UNCHANGED exceptFactory

NextFactory ==
    \/ FactoryCreate
    \/ FactoryConnect
    \/ \E class \in ManagerClasses : FactoryConstruct(class)

SpecFactory == InitFactory /\ [][NextFactory]_vars

\* ------------------------------------------------- execute() on its own
\* One query on a connected manager of engine dbType: the engine's result
\* set, the driver's rendering of it, and the SqlQueryResult made of that.
MaxCols == 2
MaxRows == 1

ColumnNames == {"a", "b"}

\* SQL values: NULL and two others.
Cells == {"NULL", "x", "y"}

SeqsUpTo(S, n) == UNION {[1 .. k -> S] : k \in 0 .. n}

\* A result set: the names of its columns, which may repeat, and its rows, a
\* cell for each column; omitted are the properties the driver leaves out of
\* its row objects.
EngineResults ==
    {[columns |-> cols, rows |-> rs, omitted |-> om] :
        cols \in SeqsUpTo(ColumnNames, MaxCols),
        rs \in SeqsUpTo(SeqsUpTo(Cells, MaxCols), MaxRows),
        om \in SUBSET ColumnNames}

WellFormed(r) == \A i \in DOMAIN r.rows : Len(r.rows[i]) = Len(r.columns)

\* The last column of that name.
LastOf(cols, name) ==
    CHOOSE k \in DOMAIN cols :
        cols[k] = name /\ \A j \in DOMAIN cols : cols[j] = name => j <= k

\* The driver's row object (mysql2 and pg alike): one property per column
\* name, and of columns with the same name the last one's value.
rowObject(cols, cells, om) ==
    [name \in {cols[k] : k \in DOMAIN cols} \ om |-> cells[LastOf(cols, name)]]

\* What conn.execute / conn.query resolves with: the fields in the result
\* set's order and one object per row.
driverResult(r) ==
    [fields |-> r.columns,
     rows |-> [i \in DOMAIN r.rows |-> rowObject(r.columns, r.rows[i], r.omitted)]]

\* A row mapping that leaves out the cells the row object has no property for.
presentCells(columns, row) ==
    LET here == SelectSeq(columns, LAMBDA col : col \in DOMAIN row)
    IN [k \in DOMAIN here |-> row[here[k]]]

\* columns.map((col) => row[col] ?? null)
formattedRow(columns, row) ==
    [k \in DOMAIN columns |->
        IF columns[k] \in DOMAIN row THEN row[columns[k]] ELSE "NULL"]

\* MysqlDatabaseManager.execute, after the await.
mysqlExecute(native) ==
    LET columns == native.fields
    IN [columns |-> columns,
        rows |-> [i \in DOMAIN native.rows |-> formattedRow(columns, native.rows[i])]]

\* PostgresqlDatabaseManager.execute, after the await.
postgresExecute(native) ==
    LET columns == native.fields
    IN [columns |-> columns,
        rows |-> [i \in DOMAIN native.rows |-> formattedRow(columns, native.rows[i])]]

InitExecute ==
    /\ Start /\ concurrency = 1
    /\ NoFactoryCall
    /\ NoExplainCall
    /\ NoIntrospectCall
    /\ engineResult \in {<<r>> : r \in {e \in EngineResults : WellFormed(e)}}
    /\ nativeResult = <<>>
    /\ queryResult = <<>>

\* The driver's promise resolves.
DriverAnswers ==
    /\ nativeResult = <<>>
    /\ nativeResult' = <<driverResult(engineResult[1])>>
    /\ UNCHANGED <<engineResult, queryResult>>
    /\ UNCHANGED exceptExecute

\* execute() builds its result and returns it.
ExecuteReturns ==
    /\ Len(nativeResult) = 1
    /\ queryResult = <<>>
    /\ queryResult' = <<IF dbType = "mysql" THEN mysqlExecute(nativeResult[1])
                                             ELSE postgresExecute(nativeResult[1])>>
    /\ UNCHANGED <<engineResult, nativeResult>>
    /\ UNCHANGED exceptExecute

NextExecute ==
    \/ DriverAnswers
    \/ ExecuteReturns

SpecExecute == InitExecute /\ [][NextExecute]_vars

\* ------------------------------------------- explain_query with its query
\* The server with a client that awaits each response, as in SpecSequential,
\* and whose explain_query calls are followed through with their arguments.
\* The clock stands still in these runs: a session stops being live by
\* eviction only (expiry is followed in Spec and SpecSequential).
Sqls == {"SELECT ?"}

Params == {<<"x">>}

\* The query objects the client sends: params and analyze may be left out.
RawExplainQueries == [sql : Sqls, params : Opt(Params), analyze : Opt(BOOLEAN)]

\* ExplainQuerySchema: sql is a string of at least one character, params is
\* optional, analyze defaults to false.
ExplainQuerySchemaParse(raw) ==
    [sql |-> raw.sql,
     params |-> raw.params,
     analyze |-> IF raw.analyze = <<>> THEN FALSE ELSE raw.analyze[1]]

\* The results the driver's EXPLAIN can come back with, as execute shapes them.
PlanResults ==
    {[columns |-> <<"a">>, rows |-> <<<<"x">>, <<"y">>>>],
     [columns |-> <<"a", "b">>, rows |-> <<>>]}

\* An EXPLAIN text that ignores analyze.
explainPlain(query) == "EXPLAIN " \o query.sql

\* The text explain_query builds: EXPLAIN ANALYZE or EXPLAIN before the sql.
explainQueryText(query) ==
    IF query.analyze
    THEN "EXPLAIN ANALYZE " \o query.sql
    ELSE "EXPLAIN " \o query.sql

\* explain_query: the lookup, the EXPLAIN text, then dbManager.execute with
\* that text and the query's params, up to the await of the driver's query.
ExplainQuery(h, id, raw) ==
    /\ Takes(h)
    /\ Lookup(id)
    /\ handlers' = [Delivered EXCEPT ![h] = AfterLookup("explain_query", id, "execute")]
    /\ LET query == ExplainQuerySchemaParse(raw) IN
       /\ explainQuery' = <<query>>
       /\ executeCalls' =
             IF Found(id) = undefined
             THEN <<>>
             ELSE <<[sql |-> explainQueryText(query), params |-> query.params]>>
    /\ planResult' = <<>>
    /\ explainReply' = <<>>
    /\ stderr' = <<>>
    /\ UNCHANGED <<now, adapters, nAdapters, nIds, dbType, concurrency>>
    /\ UNCHANGED <<factoryVars, executeVars, introspectVars>>

\* dbManager.execute resolves: the handler returns the result with the
\* original sql and the analyze flag added.
ExplainResolved(h, result) ==
    /\ handlers[h].pc = "execute"
    /\ handlers[h].op = "explain_query"
    /\ handlers' = [Delivered EXCEPT ![h].pc = "done"]
    /\ planResult' = <<result>>
    /\ explainReply' =
          <<[columns |-> result.columns, rows |-> result.rows,
             originalQuery |-> explainQuery[1].sql,
             withAnalysis |-> explainQuery[1].analyze]>>
    /\ stderr' = <<>>
    /\ UNCHANGED <<explainQuery, executeCalls>>
    /\ UNCHANGED <<now, connCache, adapters, nAdapters, nIds, disc, disposed, dbType,
                   concurrency, touched>>
    /\ UNCHANGED <<factoryVars, executeVars, introspectVars>>

\* dbManager.execute rejects: the error reaches the caller.
ExplainRejected(h) ==
    /\ handlers[h].pc = "execute"
    /\ handlers[h].op = "explain_query"
    /\ handlers' = [Delivered EXCEPT ![h].pc = "done", ![h].error = "QueryError"]
    /\ stderr' = <<>>
    /\ UNCHANGED explainVars
    /\ UNCHANGED <<now, connCache, adapters, nAdapters, nIds, disc, disposed, dbType,
                   concurrency, touched>>
    /\ UNCHANGED <<factoryVars, executeVars, introspectVars>>

NextExplain ==
    \/ \E h \in Handlers, config \in ClientConfigs : ConnectStart(h, config)
    \/ \E h \in Handlers : ConnectResolved(h)
    \/ \E h \in Handlers : ConnectRejected(h)
    \/ \E h \in Handlers, id \in UUIDs, raw \in RawExplainQueries : ExplainQuery(h, id, raw)
    \/ \E h \in Handlers, result \in PlanResults : ExplainResolved(h, result)
    \/ \E h \in Handlers : ExplainRejected(h)
    \/ \E a \in AdapterIds, ok \in BOOLEAN : DisconnectSettled(a, ok)

\* The handler is the same for both engines; the sessions here are
\* PostgreSQL ones.
InitExplain == InitSequential /\ dbType = "postgres"

SpecExplain == InitExplain /\ [][NextExplain]_vars

\* ----------------------------------------------- introspect() on its own
\* One introspect() on a connected manager of engine dbType, query by
\* query: the database name, the table listing, then for every listed table
\* an async function (columns query, then foreign-key query), all of them
\* under one Promise.all.
\* The objects a database can hold, in the order the engine lists them.
ObjectOrder ==
    <<"movies", "people", "movie_details_with_ratings", "archive",
      "customers", "orders", "shipments">>

ObjectNames == {ObjectOrder[k] : k \in DOMAIN ObjectOrder}

\* information_schema.tables.table_type
KindOf(name) == IF name = "movie_details_with_ratings" THEN "VIEW" ELSE "BASE TABLE"

\* information_schema.tables.table_schema: the schema the manager is
\* configured for (config.database for MySQL, public for PostgreSQL), or
\* another one.
SchemaOf(name) == IF name = "archive" THEN "other" ELSE "own"

\* information_schema.columns for an object: its column names by ordinal
\* position.
ColumnsOf(name) ==
    CASE name = "people" -> <<"id", "name">>
      [] name = "orders" -> <<"id", "customer_id">>
      [] name = "shipments" -> <<"id", "order_id", "customer_id">>
      [] OTHER -> <<"id">>

\* The columns of an object's PRIMARY KEY constraint.
PrimaryKeyOf(name) == IF KindOf(name) = "VIEW" THEN {} ELSE {"id"}

\* The FOREIGN KEY constraints an object declares: orders(customer_id)
\* references customers(id), and shipments(order_id, customer_id) references
\* orders(id, customer_id) with one constraint of two columns.
ForeignKeysOf(name) ==
    CASE name = "orders" ->
            <<[constraint_name |-> "orders_customer_fk",
               columns |-> <<"customer_id">>,
               foreign_table |-> "customers", foreign_columns |-> <<"id">>]>>
      [] name = "shipments" ->
            <<[constraint_name |-> "shipments_order_fk",
               columns |-> <<"order_id", "customer_id">>,
               foreign_table |-> "orders", foreign_columns |-> <<"id", "customer_id">>]>>
      [] OTHER -> <<>>

\* The databases looked at: at most MaxObjects objects, every referenced
\* table present.
MaxObjects == 3

Catalogs ==
    {c \in SUBSET ObjectNames :
        /\ Cardinality(c) <= MaxObjects
        /\ \A n \in c : \A f \in DOMAIN ForeignKeysOf(n) :
               ForeignKeysOf(n)[f].foreign_table \in c}

\* MySQL: ... FROM information_schema.tables WHERE table_schema = ?
mysqlTables(cat) ==
    SelectSeq(ObjectOrder, LAMBDA n : n \in cat /\ SchemaOf(n) = "own")

\* PostgreSQL: ... WHERE table_schema = 'public' AND table_type = 'BASE TABLE'
postgresTables(cat) ==
    SelectSeq(ObjectOrder,
              LAMBDA n : n \in cat /\ SchemaOf(n) = "own" /\ KindOf(n) = "BASE TABLE")

\* The rows of the listing as the driver hands them over. MySQL's query
\* names its column "table_name"; PostgreSQL's selects TABLE_NAME unquoted,
\* which the server folds to lower case.
listingRows(names) == [k \in DOMAIN names |-> [table_name |-> names[k]]]

\* Destructuring a row: the property's value, or undefined (<<>>).
property(row, key) == IF key \in DOMAIN row THEN <<row[key]>> ELSE <<>>

\* tables.map(async ({ table_name }) => ...) and ({ TABLE_NAME }) => ...
tableNames(rows) ==
    [k \in DOMAIN rows |->
        property(rows[k], IF dbType = "mysql" THEN "table_name" ELSE "TABLE_NAME")]

\* MySQL's columns query: COLUMN_NAME and COLUMN_KEY, which is PRI for a
\* primary-key column and MUL for the first column of a foreign key's index.
mysqlColumnRows(name) ==
    [k \in DOMAIN ColumnsOf(name) |->
        LET c == ColumnsOf(name)[k] IN
        [column_name |-> c,
         column_key |-> IF c \in PrimaryKeyOf(name) THEN "PRI"
                        ELSE IF \E f \in DOMAIN ForeignKeysOf(name) :
                                   ForeignKeysOf(name)[f].columns[1] = c
                        THEN "MUL" ELSE ""]]

\* PostgreSQL's columns query: column_name, and is_primary_key from the
\* LEFT JOIN with the key columns of the table's PRIMARY KEY constraint.
postgresColumnRows(name) ==
    [k \in DOMAIN ColumnsOf(name) |->
        [column_name |-> ColumnsOf(name)[k],
         is_primary_key |-> ColumnsOf(name)[k] \in PrimaryKeyOf(name)]]

\* name: col.column_name, primary_key: col.column_key === "PRI"
mysqlColumns(rows) ==
    [k \in DOMAIN rows |->
        [name |-> rows[k].column_name, primary_key |-> rows[k].column_key = "PRI"]]

\* name: col.column_name, primary_key: col.is_primary_key
postgresColumns(rows) ==
    [k \in DOMAIN rows |->
        [name |-> rows[k].column_name, primary_key |-> rows[k].is_primary_key]]

\* The columns query for a table name, mapped to ColumnSchemas; undefined is
\* sent as NULL and matches no table.
columnsAnswer(cat, name) ==
    IF name # <<>> /\ name[1] \in cat
    THEN IF dbType = "mysql"
         THEN mysqlColumns(mysqlColumnRows(name[1]))
         ELSE postgresColumns(postgresColumnRows(name[1]))
    ELSE <<>>

RECURSIVE Flatten(_)
Flatten(seqs) == IF seqs = <<>> THEN <<>> ELSE Head(seqs) \o Flatten(Tail(seqs))

\* MySQL's foreign-key query: the rows of key_column_usage that reference a
\* table, one per column of each constraint, each with the referenced column
\* of the same position.
mysqlForeignKeyRows(name) ==
    Flatten([f \in DOMAIN ForeignKeysOf(name) |->
        LET fk == ForeignKeysOf(name)[f] IN
        [i \in DOMAIN fk.columns |->
            [column_name |-> fk.columns[i],
             referenced_table_name |-> fk.foreign_table,
             referenced_column_name |-> fk.foreign_columns[i],
             constraint_name |-> fk.constraint_name]]])

\* PostgreSQL's foreign-key query: key_column_usage joined with
\* constraint_column_usage on the constraint's name and schema alone, so
\* every referencing column of a constraint meets every referenced column.
postgresForeignKeyRows(name) ==
    Flatten([f \in DOMAIN ForeignKeysOf(name) |->
        LET fk == ForeignKeysOf(name)[f] IN
        Flatten([i \in DOMAIN fk.columns |->
            [j \in DOMAIN fk.foreign_columns |->
                [column_name |-> fk.columns[i],
                 foreign_table_name |-> fk.foreign_table,
                 foreign_column_name |-> fk.foreign_columns[j],
                 constraint_name |-> fk.constraint_name]]])])

\* foreign_table: fk.referenced_table_name, foreign_column: fk.referenced_column_name
mysqlForeignKeys(rows) ==
    [k \in DOMAIN rows |->
        [column |-> rows[k].column_name,
         foreign_table |-> rows[k].referenced_table_name,
         foreign_column |-> rows[k].referenced_column_name,
         constraint_name |-> rows[k].constraint_name]]

\* foreign_table: fk.foreign_table_name, foreign_column: fk.foreign_column_name
postgresForeignKeys(rows) ==
    [k \in DOMAIN rows |->
        [column |-> rows[k].column_name,
         foreign_table |-> rows[k].foreign_table_name,
         foreign_column |-> rows[k].foreign_column_name,
         constraint_name |-> rows[k].constraint_name]]

\* The foreign-key query for a table name, mapped to ForeignKeySchemas.
foreignKeysAnswer(cat, name) ==
    IF name # <<>> /\ name[1] \in cat
    THEN IF dbType = "mysql"
         THEN mysqlForeignKeys(mysqlForeignKeyRows(name[1]))
         ELSE postgresForeignKeys(postgresForeignKeyRows(name[1]))
    ELSE <<>>

\* How many of the tables' async functions have returned.
finished(chains) == Cardinality({k \in DOMAIN chains : chains[k].stage = "done"})

\* A combinator that waits for every promise and rejects for none.
promiseAllSettled(chains) ==
    IF \A k \in DOMAIN chains : chains[k].stage \in {"done", "failed"}
    THEN "returned"
    ELSE "fanout"

\* Promise.all over the tables' async functions: rejected as soon as one of
\* them is, fulfilled once all of them are.
promiseAll(chains) ==
    IF \E k \in DOMAIN chains : chains[k].stage = "failed"
    THEN "thrown"
    ELSE IF \A k \in DOMAIN chains : chains[k].stage = "done"
    THEN "returned"
    ELSE "fanout"

\* introspect() after a step of one of its async functions: once it has
\* thrown or returned, what they do later changes nothing for its caller.
stageAfter(stage, chains) == IF stage = "fanout" THEN promiseAll(chains) ELSE stage

\* A layout whose tables are in the order in which their functions returned.
layoutInCompletionOrder(dbName, chains) ==
    [name |-> dbName,
     tables |-> [r \in DOMAIN chains |->
                    LET k == CHOOSE j \in DOMAIN chains : chains[j].rank = r IN
                    [name |-> chains[k].name, columns |-> chains[k].columns,
                     foreign_keys |-> chains[k].foreign_keys]]]

\* return { name: dbName, tables: tableSchemas }
layoutOf(dbName, chains) ==
    [name |-> dbName,
     tables |-> [k \in DOMAIN chains |->
                    [name |-> chains[k].name, columns |-> chains[k].columns,
                     foreign_keys |-> chains[k].foreign_keys]]]

layoutAfter(stage, chains) ==
    IF stage = "returned"
    THEN <<layoutOf(introspection.dbName,
                    SelectSeq(chains, LAMBDA c : c.stage = "done"))>>
    ELSE <<>>

InitIntrospect ==
    /\ Start /\ concurrency = 1
    /\ NoFactoryCall
    /\ NoExecuteCall
    /\ NoExplainCall
    /\ catalog \in Catalogs
    /\ introspection = [stage |-> "called", dbName |-> "", chains |-> <<>>, failures |-> 0]
    /\ layout = <<>>

\* introspect(): conn is set, the database-name query is sent.
IntrospectCall ==
    /\ introspection.stage = "called"
    /\ introspection' = [introspection EXCEPT !.stage = "dbname"]
    /\ UNCHANGED <<catalog, layout>>
    /\ UNCHANGED exceptIntrospect

\* The database-name query settles; answered, the table listing is sent.
DbNameAnswered(ok) ==
    /\ introspection.stage = "dbname"
    /\ introspection' =
          IF ok
          THEN [introspection EXCEPT !.stage = "tables", !.dbName = "app"]
          ELSE [introspection EXCEPT !.stage = "thrown", !.failures = @ + 1]
    /\ UNCHANGED <<catalog, layout>>
    /\ UNCHANGED exceptIntrospect

\* The table listing settles; answered, every table's async function runs
\* up to its columns query, and Promise.all waits for them.
TablesAnswered(ok) ==
    /\ introspection.stage = "tables"
    /\ LET names == tableNames(listingRows(IF dbType = "mysql"
                                           THEN mysqlTables(catalog)
                                           ELSE postgresTables(catalog)))
           chains == [k \in DOMAIN names |->
                        [name |-> names[k], stage |-> "columns", columns |-> <<>>,
                         foreign_keys |-> <<>>, rank |-> 0]]
       IN IF ok
          THEN /\ introspection' = [introspection EXCEPT
                                      !.chains = chains,
                                      !.stage = stageAfter("fanout", chains)]
               /\ layout' = layoutAfter(stageAfter("fanout", chains), chains)
          ELSE /\ introspection' = [introspection EXCEPT
                                      !.stage = "thrown", !.failures = @ + 1]
               /\ layout' = layout
    /\ UNCHANGED catalog
    /\ UNCHANGED exceptIntrospect

\* The columns query of the k-th table settles; answered, its foreign-key
\* query is sent.
ColumnsAnswered(k, ok) ==
    /\ k \in DOMAIN introspection.chains
    /\ introspection.chains[k].stage = "columns"
    /\ LET chains == [introspection.chains EXCEPT
                         ![k].stage = IF ok THEN "fks" ELSE "failed",
                         ![k].columns = IF ok THEN columnsAnswer(catalog, introspection.chains[k].name) ELSE @]
       IN /\ introspection' = [introspection EXCEPT
                                 !.chains = chains,
                                 !.stage = stageAfter(@, chains),
                                 !.failures = IF ok THEN @ ELSE @ + 1]
          /\ layout' = IF introspection.stage = "fanout"
                       THEN layoutAfter(stageAfter("fanout", chains), chains)
                       ELSE layout
    /\ UNCHANGED catalog
    /\ UNCHANGED exceptIntrospect

\* The foreign-key query of the k-th table settles; answered, the table's
\* async function returns its TableSchema.
FksAnswered(k, ok) ==
    /\ k \in DOMAIN introspection.chains
    /\ introspection.chains[k].stage = "fks"
    /\ LET chains == [introspection.chains EXCEPT
                         ![k].stage = IF ok THEN "done" ELSE "failed",
                         ![k].foreign_keys =
                            IF ok THEN foreignKeysAnswer(catalog, introspection.chains[k].name)
                            ELSE @,
                         ![k].rank = IF ok THEN finished(introspection.chains) + 1 ELSE @]
       IN /\ introspection' = [introspection EXCEPT
                                 !.chains = chains,
                                 !.stage = stageAfter(@, chains),
                                 !.failures = IF ok THEN @ ELSE @ + 1]
          /\ layout' = IF introspection.stage = "fanout"
                       THEN layoutAfter(stageAfter("fanout", chains), chains)
                       ELSE layout
    /\ UNCHANGED catalog
    /\ UNCHANGED exceptIntrospect

NextIntrospect ==
    \/ IntrospectCall
    \/ \E ok \in BOOLEAN : DbNameAnswered(ok)
    \/ \E ok \in BOOLEAN : TablesAnswered(ok)
    \/ \E k \in DOMAIN ObjectOrder, ok \in BOOLEAN : ColumnsAnswered(k, ok)
    \/ \E k \in DOMAIN ObjectOrder, ok \in BOOLEAN : FksAnswered(k, ok)

SpecIntrospect == InitIntrospect /\ [][NextIntrospect]_vars

\* ================================================================ claims
ReadOps == {"inspect_database", "execute_query", "explain_query"}

ValueOf(c, k) == c[IndexOf(c, k)].value

\* In this step handler h came back from its connection attempt and did its
\* put (connCache.set) and returned.
PutBy(h) ==
    /\ handlers[h].pc = "connect"
    /\ handlers'[h].pc = "done"
    /\ handlers'[h].error = ""

\* In this step handler h was invoked as tool op with session id id.
StartedBy(h, op, id) ==
    /\ Free(h)
    /\ handlers'[h].op = op
    /\ handlers'[h].connectionId = id

\* C1: a put into a full registry removes exactly one entry, the one whose
\* id was least recently put or looked up, runs the dispose hook exactly once,
\* for that entry's manager (whose disconnect is thereby started), and keeps
\* every other entry.
C1_CapacityEviction ==
    [][\A h \in Handlers :
         (PutBy(h) /\ Len(connCache) = max /\ touched # <<>>) =>
            LET lru == touched[1]
                victim == ValueOf(connCache, lru)
            IN /\ lru \in KeysOf(connCache)
               /\ KeysOf(connCache') =
                      (KeysOf(connCache) \ {lru}) \cup {handlers'[h].connectionId}
               /\ Len(connCache') = max
               /\ disposed' = [disposed EXCEPT ![victim] = @ + 1]
               /\ disc' = [disc EXCEPT ![victim] = "ending"]
               /\ \A k \in KeysOf(connCache) \ {lru} :
                      ValueOf(connCache', k) = ValueOf(connCache, k)
      ]_vars

\* A put has just evicted: no time has passed (nothing expired), a connect
\* has just returned, a manager was disposed, and the first session is still
\* registered because a lookup refreshed it.
C1_Witness ==
    /\ now = 0
    /\ \E h \in Handlers : handlers[h].pc = "done" /\ handlers[h].op = "connect"
                           /\ handlers[h].connectionId = max + 1
    /\ \E a \in AdapterIds : disposed[a] = 1
    /\ 1 \in KeysOf(connCache)

\* C2: the registry never holds more than max entries.
C2_AtMostMax == Len(connCache) <= max

\* The registry is full after more puts than it has room for.
C2_Witness == Len(connCache) = max /\ nIds > max

StartOf(c, k) == c[IndexOf(c, k)].start

\* Session id is registered and has not aged past the time-to-live.
Live(id) == id \in KeysOf(connCache) /\ ~isStale(connCache[IndexOf(connCache, id)], now)

\* C3 (as claimed): every registered entry that has aged past the
\* time-to-live has had its dispose hook run, looked up again or not.
C3_ExpiredIsDisposed ==
    \A i \in DOMAIN connCache :
        isStale(connCache[i], now) => disposed[connCache[i].value] > 0

\* C4: an entry's lifetime starts at its put and is never restarted: a
\* lookup of an entry older than ttl fails with "No connection found" and
\* removes it, and no step changes the start of an entry that stays.
C4_HardTtl ==
    [][/\ \A h \in Handlers, op \in ReadOps, id \in KeysOf(connCache) :
            (StartedBy(h, op, id) /\ now - StartOf(connCache, id) > ttl) =>
                /\ handlers'[h] = Failed(op, id, "No connection found")
                /\ id \notin KeysOf(connCache')
       /\ \A k \in KeysOf(connCache) \cap KeysOf(connCache') :
            StartOf(connCache', k) = StartOf(connCache, k)
       /\ \A k \in KeysOf(connCache') \ KeysOf(connCache) :
            StartOf(connCache', k) = now
      ]_vars

\* A lookup has just failed for a session that was registered and that no
\* put can have evicted (no more ids were issued than the cache holds).
C4_Witness ==
    /\ nIds <= max
    /\ \E h \in Handlers :
          /\ handlers[h].pc = "done"
          /\ handlers[h].error = "No connection found"
          /\ handlers[h].connectionId \in 1 .. nIds
          /\ handlers[h].connectionId \notin KeysOf(connCache)
    /\ \E a \in AdapterIds : disposed[a] = 1

\* C5 (as claimed): no handler is awaiting a driver call on a manager whose
\* disconnect the dispose hook has called.
C5_NoDisconnectMidFlight ==
    \A h \in Handlers :
        handlers[h].pc \in {"execute", "introspect"} =>
            disc[handlers[h].dbManager] = "none"

\* C6: a failed close is written to console.error and reaches no handler and
\* no registry operation; the put or get whose removal ran the hook returns
\* in the same step, while the disconnect it started is still pending.
C6_DisposalAbsorbed ==
    [][/\ \A a \in AdapterIds :
            (disc[a] = "ending" /\ disc'[a] = "failed") =>
                /\ stderr' = <<"Error disconnecting", a>>
                /\ handlers' = Delivered
                /\ connCache' = connCache
       /\ \A a \in AdapterIds :
            disposed'[a] > disposed[a] =>
                /\ disc'[a] = "ending"
                /\ \E h \in Handlers :
                      \/ PutBy(h)
                      \/ \E op \in ReadOps, id \in UUIDs :
                            /\ StartedBy(h, op, id)
                            /\ handlers'[h] = Failed(op, id, "No connection found")
      ]_vars

\* The close started by the hook has failed and the error is on stderr.
C6_Witness ==
    \E a \in AdapterIds : disc[a] = "failed" /\ stderr = <<"Error disconnecting", a>>

\* C7: a tool call with an id that is not live ends at once with the one
\* error "No connection found": no execute or introspect is started, no
\* manager is constructed or connected, no id is issued, nothing is added to
\* the registry and no other invocation is started.
C7_UnknownSession ==
    [][\A h \in Handlers, op \in ReadOps, id \in UUIDs :
         (StartedBy(h, op, id) /\ ~Live(id)) =>
            /\ handlers'[h] = Failed(op, id, "No connection found")
            /\ KeysOf(connCache') \subseteq KeysOf(connCache)
            /\ adapters' = adapters
            /\ nAdapters' = nAdapters
            /\ nIds' = nIds
            /\ \A g \in Handlers \ {h} : handlers'[g] = Delivered[g]
      ]_vars

\* A lookup has just failed for an id that was issued and, no time having
\* passed, has been evicted by a put.
C7_Witness ==
    \E h \in Handlers :
        /\ handlers[h].pc = "done"
        /\ handlers[h].error = "No connection found"
        /\ handlers[h].op \in ReadOps
        /\ now = 0
        /\ handlers[h].connectionId \in 1 .. nIds

\* C8: an id becomes live only by the put of a connect that succeeded, and
\* then for the first time; it stops being live only by a put into a full
\* registry or by a lookup that finds it expired; once absent again it
\* stays absent; no two entries share an id; a put never lands on a live id
\* and leaves every remaining entry its manager.
C8_SessionLifecycle ==
    [][/\ Cardinality(KeysOf(connCache)) = Len(connCache)
       /\ \A k \in UUIDs :
            /\ (k \notin KeysOf(connCache) /\ k \in KeysOf(connCache')) =>
                  /\ k > nIds
                  /\ \E h \in Handlers : PutBy(h) /\ handlers'[h].connectionId = k
            /\ (k \in KeysOf(connCache) /\ k \notin KeysOf(connCache')) =>
                  \/ \E h \in Handlers : PutBy(h) /\ Len(connCache) = max
                  \/ /\ now - StartOf(connCache, k) > ttl
                     /\ \E h \in Handlers, op \in ReadOps : StartedBy(h, op, k)
            /\ (k <= nIds /\ k \notin KeysOf(connCache)) => k \notin KeysOf(connCache')
       /\ \A h \in Handlers :
            PutBy(h) =>
                /\ handlers'[h].connectionId \notin KeysOf(connCache)
                /\ \A k \in KeysOf(connCache) \cap KeysOf(connCache') :
                      ValueOf(connCache', k) = ValueOf(connCache, k)
      ]_vars

\* Session 1 was live and is absent again while another session is live.
C8_Witness == 1 <= nIds /\ 1 \notin KeysOf(connCache) /\ connCache # <<>>

\* C10: when the driver's connection attempt fails the handler ends with
\* the driver's error, the manager's conn is still null, no id is issued
\* and the registry is as it was; every registered manager is connected.
C10_ConnectError ==
    [][/\ \A h \in Handlers :
            (handlers[h].pc = "connect" /\ handlers'[h].pc = "done"
                /\ handlers'[h].error # "") =>
                /\ handlers'[h].error = "ConnectError"
                /\ handlers'[h].connectionId = undefined
                /\ adapters'[handlers[h].dbManager].conn = "null"
                /\ nIds' = nIds
                /\ connCache' = connCache
       /\ \A i \in DOMAIN connCache' : adapters'[connCache'[i].value].conn = "open"
      ]_vars

\* A connect has just failed and its manager has no handle.
C10_Witness ==
    \E h \in Handlers :
        /\ handlers[h].pc = "done"
        /\ handlers[h].error = "ConnectError"
        /\ adapters[handlers[h].dbManager].conn = "null"
        /\ adapters[handlers[h].dbManager].type # "none"

\* In this step caller h called method op of manager a.
CalledBy(h, op, a) ==
    /\ Free(h)
    /\ handlers'[h].op = op
    /\ handlers'[h].dbManager = a

\* C9: execute and introspect called on a manager of either class whose
\* conn is null throw "Not connected" at once: the call is not in flight
\* afterwards (no driver call was issued) and the manager is unchanged.
C9_NotConnectedGuard ==
    [][\A h \in Handlers, a \in AdapterIds,
          op \in {"manager.execute", "manager.introspect"} :
         (CalledBy(h, op, a) /\ adapters[a].conn = "null") =>
            /\ handlers'[h].pc = "done"
            /\ handlers'[h].error = "Not connected"
            /\ adapters' = adapters
      ]_vars

\* The guard has just thrown on a manager whose disconnect had completed.
C9_Witness ==
    \E h \in Handlers :
        /\ handlers[h].pc = "done"
        /\ handlers[h].error = "Not connected"
        /\ handlers[h].op \in {"manager.execute", "manager.introspect"}
        /\ disc[handlers[h].dbManager] \in {"closed", "failed"}

\* C11: a disconnect called on a manager whose conn is null (as it is once
\* an earlier disconnect has returned) returns at once without error: no
\* conn.end() is started, nothing is logged, and the manager is left as the
\* first call left it, conn null; and every disconnect that returns leaves
\* conn null, so a second call in succession always finds it so.
C11_IdempotentDisconnect ==
    [][/\ \A h \in Handlers, a \in AdapterIds :
            (CalledBy(h, "manager.disconnect", a) /\ adapters[a].conn = "null") =>
                /\ handlers'[h].pc = "done"
                /\ handlers'[h].error = ""
                /\ adapters' = adapters
                /\ disc' = disc
                /\ stderr' = <<>>
       /\ \A h \in Handlers :
            (handlers'[h].op = "manager.disconnect" /\ handlers'[h].pc = "done") =>
                adapters'[handlers'[h].dbManager].conn = "null"
      ]_vars

\* A second disconnect has just returned: the first one's close had failed
\* and was logged, and the step that has just run logged nothing.
C11_Witness ==
    \E h \in Handlers :
        /\ handlers[h].op = "manager.disconnect"
        /\ handlers[h].pc = "done"
        /\ handlers[h].error = ""
        /\ disc[handlers[h].dbManager] = "failed"
        /\ stderr = <<>>

\* C12: when the conn.end() awaited by disconnect settles, disconnect
\* returns without error and conn is null, whether the close succeeded or
\* not; a failed close is written to console.error.
C12_DisconnectNeverRaises ==
    [][\A h \in Handlers :
         (handlers[h].pc = "end" /\ handlers'[h].pc # "end") =>
            /\ handlers'[h].pc = "done"
            /\ handlers'[h].error = ""
            /\ adapters'[handlers[h].dbManager].conn = "null"
            /\ disc'[handlers[h].dbManager] \in {"closed", "failed"}
            /\ disc'[handlers[h].dbManager] = "failed" =>
                  stderr' = <<"Error disconnecting", handlers[h].dbManager>>
      ]_vars

\* A disconnect whose close failed has just returned without error.
C12_Witness ==
    \E h \in Handlers :
        /\ handlers[h].op = "manager.disconnect"
        /\ handlers[h].pc = "done"
        /\ handlers[h].error = ""
        /\ disc[handlers[h].dbManager] = "failed"
        /\ adapters[handlers[h].dbManager].conn = "null"
        /\ stderr = <<"Error disconnecting", handlers[h].dbManager>>

\* Everything but the type is as the schema wants it.
RestValid(raw) ==
    /\ raw.port # <<>> /\ raw.port[1].tenths = 0 /\ raw.port[1].int > 0
    /\ raw.database # <<>>
    /\ raw.username # <<>>
    /\ raw.password # <<>>

MissingField(raw) ==
    \/ raw.type = <<>>
    \/ raw.port = <<>>
    \/ raw.database = <<>>
    \/ raw.username = <<>>
    \/ raw.password = <<>>

\* The port is given and is not a positive integer.
BadPort(raw) ==
    raw.port # <<>> /\ ~(raw.port[1].tenths = 0 /\ raw.port[1].int > 0)

\* database, username or password is the empty string.
EmptyString(raw) == <<"">> \in {raw.database, raw.username, raw.password}

\* C14 (as claimed): createManagerFromConfig throws the validation error and
\* returns no manager whenever a required field is missing, the port is not
\* a positive integer, or database, username or password is empty.
C14_StructuralChecks ==
    (/\ Len(factoryResult) = 1
     /\ (MissingField(factoryConfig) \/ BadPort(factoryConfig) \/ EmptyString(factoryConfig))) =>
        /\ factoryResult[1].error = "ZodError"
        /\ factoryResult[1].manager = NoAdapter

\* C14 (amended): createManagerFromConfig throws the validation error and
\* returns no manager whenever a required field is missing or the port is
\* not a positive integer; an empty database, username or password is not a
\* validation error: with the rest valid the manager is made and holds the
\* empty string.
C14_MissingOrBadPort ==
    Len(factoryResult) = 1 =>
        /\ (MissingField(factoryConfig) \/ BadPort(factoryConfig)) =>
              /\ factoryResult[1].error = "ZodError"
              /\ factoryResult[1].manager = NoAdapter
        /\ (/\ factoryConfig.type \in {<<"mysql">>, <<"postgres">>}
            /\ RestValid(factoryConfig)) =>
              /\ factoryResult[1].error = ""
              /\ <<factoryResult[1].manager.config.database>> = factoryConfig.database
              /\ <<factoryResult[1].manager.config.username>> = factoryConfig.username
              /\ <<factoryResult[1].manager.config.password>> = factoryConfig.password

\* createManagerFromConfig has thrown over a port that is not an integer,
\* every other field being valid and not empty.
C14_Witness ==
    /\ Len(factoryResult) = 1
    /\ factoryConfig.type = <<"mysql">>
    /\ factoryConfig.port = <<[int |-> 3307, tenths |-> 5]>>
    /\ ~MissingField(factoryConfig)
    /\ ~EmptyString(factoryConfig)
    /\ factoryResult[1].error = "ZodError"

\* C15 (as claimed): a config that leaves out host, port or both and is
\* valid otherwise yields a manager, and that manager connects to
\* "localhost" when host was left out and to its engine's default port when
\* port was left out.
C15_ConfigDefaults ==
    (/\ Len(factoryResult) = 1
     /\ factoryConfig.type \in {<<"mysql">>, <<"postgres">>}
     /\ ~BadPort(factoryConfig)
     /\ <<>> \notin {factoryConfig.database, factoryConfig.username, factoryConfig.password}) =>
        /\ factoryResult[1].error = ""
        /\ Len(driverOptions) = 1 =>
              /\ factoryConfig.host = <<>> => driverOptions[1].host = "localhost"
              /\ factoryConfig.port = <<>> =>
                    driverOptions[1].port = defaultPort(factoryConfig.type[1])

\* C16: in the result of execute, on either manager, every row has as many
\* cells as there are columns, there is a row for each row of the driver,
\* and where the driver's row object has no property for a column, or has
\* null, the cell in that column's position is null.
C16_ColumnAlignment ==
    Len(queryResult) = 1 =>
        LET native == nativeResult[1]
            result == queryResult[1]
        IN /\ result.columns = native.fields
           /\ Len(result.rows) = Len(native.rows)
           /\ \A i \in DOMAIN result.rows :
                /\ Len(result.rows[i]) = Len(result.columns)
                /\ \A k \in DOMAIN result.columns :
                     IF result.columns[k] \in DOMAIN native.rows[i]
                     THEN native.rows[i][result.columns[k]] = "NULL" =>
                             result.rows[i][k] = "NULL"
                     ELSE result.rows[i][k] = "NULL"

\* A row of two columns has been returned whose object lacked the first
\* column's property and had a value for the second.
C16_Witness ==
    /\ Len(queryResult) = 1
    /\ queryResult[1].columns = <<"a", "b">>
    /\ Len(queryResult[1].rows) = 1
    /\ "a" \notin DOMAIN nativeResult[1].rows[1]
    /\ queryResult[1].rows[1] = <<"NULL", "x">>

\* C17 (as claimed): with a driver that leaves nothing out, the cell at
\* position k of every row of the result is the value the engine sent for
\* its k-th column, also when two columns have the same name.
C17_PositionalCells ==
    (Len(queryResult) = 1 /\ engineResult[1].omitted = {}) =>
        /\ queryResult[1].columns = engineResult[1].columns
        /\ \A i \in DOMAIN engineResult[1].rows :
             \A k \in DOMAIN engineResult[1].columns :
                queryResult[1].rows[i][k] = engineResult[1].rows[i][k]

\* C18: explain_query with the id of a live session calls dbManager.execute
\* once, with the text "EXPLAIN " + sql, or "EXPLAIN ANALYZE " + sql when
\* analyze is true, and with the params it was given; it makes no other
\* call while it waits; and it returns the columns and rows execute
\* resolved with, the original sql and the analyze flag.
C18_ExplainPassthrough ==
    [][/\ \A h \in Handlers, id \in UUIDs :
            (StartedBy(h, "explain_query", id) /\ Live(id)) =>
                /\ handlers'[h].pc = "execute"
                /\ Len(executeCalls') = 1
                /\ explainQuery'[1].analyze =>
                      executeCalls'[1].sql = "EXPLAIN ANALYZE " \o explainQuery'[1].sql
                /\ ~explainQuery'[1].analyze =>
                      executeCalls'[1].sql = "EXPLAIN " \o explainQuery'[1].sql
                /\ executeCalls'[1].params = explainQuery'[1].params
       /\ \A h \in Handlers :
            (handlers[h].op = "explain_query" /\ handlers[h].pc = "execute") =>
                /\ executeCalls' = executeCalls
                /\ explainQuery' = explainQuery
                /\ (handlers'[h].pc = "done" /\ handlers'[h].error = "") =>
                      explainReply' =
                          <<[columns |-> planResult'[1].columns,
                             rows |-> planResult'[1].rows,
                             originalQuery |-> explainQuery[1].sql,
                             withAnalysis |-> explainQuery[1].analyze]>>
      ]_vars

\* An explain_query with analyze: true has returned a plan of two rows.
C18_Witness ==
    /\ \E h \in Handlers :
          /\ handlers[h].op = "explain_query"
          /\ handlers[h].pc = "done"
          /\ handlers[h].error = ""
    /\ Len(explainReply) = 1
    /\ explainReply[1].withAnalysis
    /\ Len(explainReply[1].rows) = 2
    /\ executeCalls = <<[sql |-> "EXPLAIN ANALYZE SELECT ?", params |-> <<<<"x">>>>]>>

\* C19: once any query of introspect() has failed (the database name, the
\* table listing, a table's columns or a table's foreign keys), the call
\* has thrown and no layout has been returned; a layout that is returned
\* holds a TableSchema for every listed table, each fetched completely.
C19_AllOrNothing ==
    /\ introspection.failures > 0 =>
          /\ introspection.stage = "thrown"
          /\ layout = <<>>
    /\ layout # <<>> =>
          /\ introspection.stage = "returned"
          /\ introspection.failures = 0
          /\ Len(layout[1].tables) = Len(introspection.chains)
          /\ \A k \in DOMAIN introspection.chains :
                /\ introspection.chains[k].stage = "done"
                /\ layout[1].tables[k].name = introspection.chains[k].name

\* introspect() has thrown over one table's query although another table
\* had been fetched completely.
C19_Witness ==
    /\ introspection.stage = "thrown"
    /\ layout = <<>>
    /\ \E j, k \in DOMAIN introspection.chains :
          /\ introspection.chains[j].stage = "done"
          /\ introspection.chains[k].stage = "failed"

\* C20 (as claimed): the layout a MySQL manager returns has a TableSchema
\* for every base table of the configured schema and for nothing else.
C20_MysqlBaseTablesOnly ==
    (dbType = "mysql" /\ layout # <<>>) =>
        {layout[1].tables[k].name : k \in DOMAIN layout[1].tables}
            = {<<n>> : n \in {m \in catalog :
                                 SchemaOf(m) = "own" /\ KindOf(m) = "BASE TABLE"}}

\* The base tables of schema public, as the PostgreSQL listing returns them.
PublicBaseTables == postgresTables(catalog)

\* C21 (as claimed): the layout a PostgreSQL manager returns has, for every
\* base table T of schema public, a TableSchema named T with the columns and
\* foreign keys that the two per-table queries return for parameter T.
C21_PostgresTableSchemas ==
    (dbType = "postgres" /\ layout # <<>>) =>
        /\ Len(layout[1].tables) = Len(PublicBaseTables)
        /\ \A k \in DOMAIN PublicBaseTables :
              /\ k \in DOMAIN layout[1].tables
              /\ layout[1].tables[k].name = <<PublicBaseTables[k]>>
              /\ layout[1].tables[k].columns =
                    postgresColumns(postgresColumnRows(PublicBaseTables[k]))
              /\ layout[1].tables[k].foreign_keys =
                    postgresForeignKeys(postgresForeignKeyRows(PublicBaseTables[k]))

\* The names of the columns of a TableSchema that are flagged primary_key.
KeyColumns(t) == {t.columns[i].name : i \in {j \in DOMAIN t.columns : t.columns[j].primary_key}}

\* C22 (as claimed): for orders(id PK, customer_id FK -> customers.id) either
\* manager returns a TableSchema named orders whose primary_key flag is set
\* for id alone and whose foreign_keys is the one declared entry.
C22_NormalizationEquivalence ==
    (layout # <<>> /\ "orders" \in catalog) =>
        \E k \in DOMAIN layout[1].tables :
            /\ layout[1].tables[k].name = <<"orders">>
            /\ KeyColumns(layout[1].tables[k]) = {"id"}
            /\ layout[1].tables[k].foreign_keys =
                  <<[column |-> "customer_id", foreign_table |-> "customers",
                     foreign_column |-> "id", constraint_name |-> "orders_customer_fk"]>>

\* C24 (as claimed): once introspect() has returned or thrown, none of the
\* per-table queries it started is still in flight or still to be sent.
C24_ReturnsAfterAllSubqueries ==
    introspection.stage \in {"thrown", "returned"} =>
        \A k \in DOMAIN introspection.chains :
            introspection.chains[k].stage \in {"done", "failed"}

\* The rows of the table listing of this run's engine.
ListingOf(cat) ==
    listingRows(IF dbType = "mysql" THEN mysqlTables(cat) ELSE postgresTables(cat))

\* C25: the tables of a returned layout are in the order of the listing's
\* rows, and each table's columns in the order of its columns query's rows,
\* whatever the order in which the tables' queries were answered.
C25_ListingOrder ==
    layout # <<>> =>
        LET names == tableNames(ListingOf(catalog)) IN
        /\ Len(layout[1].tables) = Len(names)
        /\ \A k \in DOMAIN names :
              /\ layout[1].tables[k].name = names[k]
              /\ [i \in DOMAIN layout[1].tables[k].columns |->
                     layout[1].tables[k].columns[i].name]
                    = IF names[k] = <<>> THEN <<>> ELSE ColumnsOf(names[k][1])

\* A MySQL layout was returned whose first table has several columns and
\* was completed after a table listed later.
C25_Witness ==
    /\ dbType = "mysql"
    /\ layout # <<>>
    /\ \E j, k \in DOMAIN introspection.chains :
          /\ j < k
          /\ introspection.chains[j].rank > introspection.chains[k].rank
          /\ Len(layout[1].tables[j].columns) > 1

\* The entries of a TableSchema for one constraint, as pairs of referencing
\* and referenced column.
PairsOf(t, constraint) ==
    {<<t.foreign_keys[i].column, t.foreign_keys[i].foreign_column>> :
        i \in {j \in DOMAIN t.foreign_keys : t.foreign_keys[j].constraint_name = constraint}}

EntriesOf(t, constraint) ==
    Cardinality({j \in DOMAIN t.foreign_keys : t.foreign_keys[j].constraint_name = constraint})

\* C28 (as claimed): for shipments, whose foreign key to orders has two
\* columns, either manager returns exactly two entries for the constraint:
\* order_id with id, and customer_id with customer_id.
C28_CompositeForeignKey ==
    (layout # <<>> /\ "shipments" \in catalog) =>
        \E k \in DOMAIN layout[1].tables :
            /\ layout[1].tables[k].name = <<"shipments">>
            /\ EntriesOf(layout[1].tables[k], "shipments_order_fk") = 2
            /\ PairsOf(layout[1].tables[k], "shipments_order_fk") =
                  {<<"order_id", "id">>, <<"customer_id", "customer_id">>}

\* The tag a manager class stands for.
TagOf(class) == IF class = "MysqlDatabaseManager" THEN "mysql" ELSE "postgres"

\* C26: a manager's class matches its config's engine tag: a constructor
\* called with the other tag throws and makes nothing, and
\* createManagerFromConfig returns a MysqlDatabaseManager exactly for tag
\* "mysql" and a PostgresqlDatabaseManager exactly for tag "postgres", each
\* with conn null.
C26_TagMatchesClass ==
    /\ Len(constructed) = 1 =>
          IF <<TagOf(constructed[1].class)>> = factoryConfig.type
          THEN /\ constructed[1].result.error = ""
               /\ constructed[1].result.manager.class = constructed[1].class
               /\ constructed[1].result.manager.conn = "null"
          ELSE /\ constructed[1].result.error = "Invalid database type"
               /\ constructed[1].result.manager = NoAdapter
    /\ (Len(factoryResult) = 1 /\ factoryResult[1].error = "") =>
          /\ factoryResult[1].manager.class \in ManagerClasses
          /\ <<TagOf(factoryResult[1].manager.class)>> = factoryConfig.type
          /\ factoryResult[1].manager.type = TagOf(factoryResult[1].manager.class)
          /\ factoryResult[1].manager.conn = "null"

\* MysqlDatabaseManager's constructor was handed a postgres config and
\* threw, and createManagerFromConfig made a PostgresqlDatabaseManager for
\* the same config.
C26_Witness ==
    /\ factoryConfig.type = <<"postgres">>
    /\ Len(constructed) = 1
    /\ constructed[1].class = "MysqlDatabaseManager"
    /\ constructed[1].result.error = "Invalid database type"
    /\ Len(factoryResult) = 1
    /\ factoryResult[1].error = ""
    /\ factoryResult[1].manager.class = "PostgresqlDatabaseManager"

\* The error a driver call awaited at pc ends with when the engine refuses.
EngineError(pc) == IF pc = "connect" THEN "ConnectError" ELSE "QueryError"

\* C23: an invocation issues at most one driver call: a connect one
\* connection attempt, an execute_query or explain_query one query; when
\* the call it awaits settles the invocation returns, with the engine's
\* error if it was refused, and issues nothing more.
C23_OneAttemptPerCall ==
    [][\A h \in Handlers :
         /\ handlers'[h].driverCalls <= 1
         /\ handlers'[h].pc \in {"connect", "execute"} => handlers'[h].driverCalls = 1
         /\ (handlers[h].pc \in {"connect", "execute"} /\ handlers'[h] # handlers[h]) =>
               /\ handlers'[h].pc = "done"
               /\ handlers'[h].driverCalls = 1
               /\ handlers'[h].error \in {"", EngineError(handlers[h].pc)}
      ]_vars

\* An explain_query has returned the engine's error after its one query,
\* on a session whose connect had succeeded at the first attempt.
C23_Witness ==
    \E h \in Handlers :
        /\ handlers[h].op = "explain_query"
        /\ handlers[h].pc = "done"
        /\ handlers[h].error = "QueryError"
        /\ handlers[h].driverCalls = 1
        /\ handlers[h].connectionId \in KeysOf(connCache)

\* C29: a step in which an execute_query, explain_query or inspect_database
\* invocation ends with the engine's error changes nothing of the session:
\* the registry, the manager's handle and the disposals are as before.
C29_FailureKeepsSession ==
    [][\A h \in Handlers :
         (/\ handlers[h].pc \in {"execute", "introspect"}
          /\ handlers'[h].pc = "done"
          /\ handlers'[h].error = "QueryError") =>
            /\ connCache' = connCache
            /\ adapters' = adapters
            /\ disc' = disc
            /\ disposed' = disposed
      ]_vars

\* An inspect_database has failed on a session that is still registered,
\* within its time-to-live, with its manager connected and not disposed.
C29_Witness ==
    \E h \in Handlers :
        /\ handlers[h].op = "inspect_database"
        /\ handlers[h].pc = "done"
        /\ handlers[h].error = "QueryError"
        /\ Live(handlers[h].connectionId)
        /\ ValueOf(connCache, handlers[h].connectionId) = handlers[h].dbManager
        /\ adapters[handlers[h].dbManager].conn = "open"
        /\ disposed[handlers[h].dbManager] = 0

\* The managers that are the value of a registry entry.
Registered == {connCache[i].value : i \in DOMAIN connCache}

\* C30: a manager holding an open connection is the value of a registry
\* entry or has been handed to the dispose hook, which started its
\* disconnect; the hook runs at most once for a manager.
C30_NoLeak ==
    \A a \in AdapterIds :
        /\ adapters[a].conn = "open" =>
              \/ a \in Registered
              \/ disposed[a] >= 1 /\ disc[a] = "ending"
        /\ disposed[a] <= 1
        /\ disc[a] # "none" => disposed[a] = 1

\* One manager left the registry by eviction and its connection is closed,
\* another left it by expiry, and the registry is full of connected ones.
C30_Witness ==
    /\ Len(connCache) = max
    /\ \A a \in Registered : adapters[a].conn = "open"
    /\ \E a \in AdapterIds \ Registered : disc[a] = "closed" /\ disposed[a] = 1
    /\ now > ttl

\* The handlers that took a step of their own: not merely had a delivered
\* response cleared.
Moved == {h \in Handlers : handlers'[h] # handlers[h] /\ handlers'[h] # IdleHandler}

\* The managers whose entry left the registry in this step.
Evicted == Registered \ {connCache'[i].value : i \in DOMAIN connCache'}

\* C27: the registry changes only in steps of a single handler, each a
\* whole get or a whole put: an entry that leaves has had its dispose hook
\* run when the step ends, at most one entry is added, and the registry
\* holds at most max entries, one per id, after every step.
C27_AtomicRegistry ==
    [][/\ Len(connCache') <= max
       /\ Cardinality(KeysOf(connCache')) = Len(connCache')
       /\ connCache' # connCache =>
             /\ Cardinality(Moved) = 1
             /\ \A a \in Evicted : disposed'[a] = disposed[a] + 1
             /\ Cardinality(KeysOf(connCache') \ KeysOf(connCache)) <= 1
             /\ Cardinality(Evicted) <= 1
      ]_vars

\* Two handlers are driving the same session at once, in a registry that
\* is full and has evicted.
C27_Witness ==
    /\ handlers[1].pc = "execute"
    /\ handlers[2].pc = "introspect"
    /\ handlers[1].connectionId = handlers[2].connectionId
    /\ Len(connCache) = max
    /\ \E a \in AdapterIds : disposed[a] = 1

====
